---------------------------- MODULE Spec2Model ----------------------------
(***************************************************************************)
(* LinearSortedStringSet (riegeli/containers/linear_sorted_string_set.h):  *)
(* a sorted set of byte strings stored with shared-prefix coding, its      *)
(* Builder and its decoding Iterator.                                      *)
(*                                                                         *)
(* A string is a sequence of bytes.  Memory is modelled by addresses: the  *)
(* buffer of a set starts at address 1 (CompactString::data() is never     *)
(* nullptr), so the byte at address p is encoded_[p], and nullptr is 0.    *)
(***************************************************************************)
EXTENDS Integers, Sequences, FiniteSets, TLC

\* Longest byte string the model draws as an element.
MaxLen == 2
\* Most elements a Builder commits.
MaxElems == 3
\* Most bytes the elements of a source sequence of FromUnsorted, or of two
\* sets that get compared, take, each element counted with one length byte.
MaxBytes == 6
\* Most bytes the elements take, each counted with one length byte, of a set
\* the reader threads share, of a source of movable elements, and of what a
\* Builder commits through its NextInsertIterators.
MaxReadBytes == 5
\* Most NextInsertIterators taken from the Builder.
MaxAdapters == 2

\* The bytes elements are made of ("a", "b").
Bytes == {97, 98}

nullptr == 0

Strings == UNION {[1..n -> Bytes] : n \in 0..MaxLen}

Min(x, y) == IF x <= y THEN x ELSE y

\* absl::string_view operator<: byte-lexicographic order.
RECURSIVE StringLess(_, _)
StringLess(x, y) ==
  IF y = <<>> THEN FALSE
  ELSE IF x = <<>> THEN TRUE
  ELSE IF Head(x) # Head(y) THEN Head(x) < Head(y)
  ELSE StringLess(Tail(x), Tail(y))

\* Length of the longest common prefix of two strings.
RECURSIVE CommonPrefix(_, _)
CommonPrefix(x, y) ==
  IF x = <<>> \/ y = <<>> \/ Head(x) # Head(y) THEN 0
  ELSE 1 + CommonPrefix(Tail(x), Tail(y))

\* string_view::substr(pos).
Substr(x, pos) == SubSeq(x, pos + 1, Len(x))

\* string_view(ptr, length) over the memory mem.
View(mem, ptr, length) == SubSeq(mem, ptr, ptr + length - 1)

(***************************************************************************)
(* Varint: 7 bits per byte, least significant first, the high bit set on   *)
(* every byte but the last.                                                *)
(***************************************************************************)
RECURSIVE WriteVarint64(_)
WriteVarint64(data) ==
  IF data < 128 THEN <<data>>
  ELSE <<(data % 128) + 128>> \o WriteVarint64(data \div 128)

\* Reads a varint at address src: [value, ptr] with ptr after its last byte.
RECURSIVE ReadVarint64(_, _)
ReadVarint64(mem, src) ==
  LET byte == mem[src] IN
  IF byte < 128 THEN [value |-> byte, ptr |-> src + 1]
  ELSE LET rest == ReadVarint64(mem, src + 1) IN
       [value |-> (byte - 128) + 128 * rest.value, ptr |-> rest.ptr]

(***************************************************************************)
(* Iterator                                                                *)
(***************************************************************************)
\* Iterator(): the sentinel, equal to end().
Iterator_default ==
  [cursor_ |-> nullptr, limit_ |-> nullptr, length_if_unshared_ |-> 0,
   current_ |-> <<>>]

\* Iterator::operator* that always returns the owned string.
Iterator_deref_owned(it, mem) == it.current_

\* Iterator::operator*.
Iterator_deref(it, mem) ==
  IF it.length_if_unshared_ > 0
    THEN View(mem, it.cursor_ - it.length_if_unshared_, it.length_if_unshared_)
    ELSE it.current_

\* Iterator::Next() that returns the length of the new element.
Iterator_Next_length(it, mem) ==
  IF it.cursor_ = it.limit_
    THEN [it |-> [it EXCEPT !.cursor_ = nullptr, !.length_if_unshared_ = 0,
                            !.current_ = <<>>],
          shared_length |-> 0]
    ELSE
      LET tagged == ReadVarint64(mem, it.cursor_)
          unshared_length == tagged.value \div 2
      IN IF tagged.value % 2 = 0
           THEN [it |-> [it EXCEPT !.cursor_ = tagged.ptr + unshared_length,
                                   !.length_if_unshared_ = unshared_length,
                                   !.current_ = <<>>],
                 shared_length |-> 0]
           ELSE
             LET shared == ReadVarint64(mem, tagged.ptr)
                 prefix == SubSeq(Iterator_deref(it, mem), 1, shared.value)
             IN [it |-> [it EXCEPT
                           !.cursor_ = shared.ptr + unshared_length,
                           !.length_if_unshared_ = 0,
                           !.current_ =
                             prefix \o View(mem, shared.ptr, unshared_length)],
                 shared_length |-> shared.value + unshared_length]

\* Iterator::Next(): [it, shared_length].
Iterator_Next(it, mem) ==
  IF it.cursor_ = it.limit_
    THEN [it |-> [it EXCEPT !.cursor_ = nullptr, !.length_if_unshared_ = 0,
                            !.current_ = <<>>],
          shared_length |-> 0]
    ELSE
      LET tagged == ReadVarint64(mem, it.cursor_)
          unshared_length == tagged.value \div 2
      IN IF tagged.value % 2 = 0
           THEN [it |-> [it EXCEPT !.cursor_ = tagged.ptr + unshared_length,
                                   !.length_if_unshared_ = unshared_length,
                                   !.current_ = <<>>],
                 shared_length |-> 0]
           ELSE
             LET shared == ReadVarint64(mem, tagged.ptr)
                 prefix == SubSeq(Iterator_deref(it, mem), 1, shared.value)
             IN [it |-> [it EXCEPT
                           !.cursor_ = shared.ptr + unshared_length,
                           !.length_if_unshared_ = 0,
                           !.current_ =
                             prefix \o View(mem, shared.ptr, unshared_length)],
                 shared_length |-> shared.value]

\* Iterator(const Iterator& that) = default: a copy of every member.
Iterator_copy(that) ==
  [cursor_ |-> that.cursor_, limit_ |-> that.limit_,
   length_if_unshared_ |-> that.length_if_unshared_,
   current_ |-> that.current_]

\* operator++(int) that returns the iterator after the advance.
Iterator_postinc_after(it, mem) ==
  [it |-> Iterator_Next(it, mem).it, tmp |-> Iterator_Next(it, mem).it]

\* Iterator::operator++(int): [it, tmp], it the iterator advanced and tmp the
\* iterator returned.
Iterator_postinc(it, mem) ==
  LET tmp == Iterator_copy(it)
  IN [it |-> Iterator_Next(it, mem).it, tmp |-> tmp]

\* Iterator::Iterator(encoded) that does not decode the first entry.
Iterator_init_undecoded(encoded) ==
  [cursor_ |-> 1, limit_ |-> 1 + Len(encoded), length_if_unshared_ |-> 0,
   current_ |-> <<>>]

\* Iterator::Iterator(absl::string_view encoded).
Iterator_init(encoded) ==
  Iterator_Next([cursor_ |-> 1, limit_ |-> 1 + Len(encoded),
                 length_if_unshared_ |-> 0, current_ |-> <<>>], encoded).it

\* operator== that compares every field of the two iterators.
Iterator_equal_fields(x, y) == x = y

\* operator==(const Iterator&, const Iterator&).
Iterator_equal(x, y) == x.cursor_ = y.cursor_

(***************************************************************************)
(* Builder                                                                 *)
(***************************************************************************)
\* Builder::Builder(): begins with an empty set.
Builder_new == [writer_ |-> <<>>, last_ |-> <<>>, is_open |-> TRUE]

\* Builder::empty() as writer_.pos() >= 0.
Builder_empty_nonneg(b) == Len(b.writer_) >= 0

\* Builder::empty() as last_.empty().
Builder_empty_last(b) == b.last_ = <<>>

\* Builder::empty(): writer_.pos() == 0.
Builder_empty(b) == Len(b.writer_) = 0

\* Builder::last().
Builder_last(b) == b.last_

\* Builder::Reset() that clears last_ and keeps what was written.
Builder_Reset_last(b) == [b EXCEPT !.last_ = <<>>]

\* Builder::Reset(): makes the Builder equivalent to a newly constructed one.
Builder_Reset(b) == Builder_new

\* An entry that always carries the shared_length field, 0 included.
EncodeEntry_explicit0(element, shared_length) ==
  LET unshared_length == Len(element) - shared_length
      tagged_length == 2 * unshared_length + 1
  IN WriteVarint64(tagged_length) \o WriteVarint64(shared_length)
       \o Substr(element, shared_length)

\* An entry whose tagged_length is made from the length of the element.
EncodeEntry_whole(element, shared_length) ==
  LET tagged_length == 2 * Len(element) + (IF shared_length > 0 THEN 1 ELSE 0)
  IN WriteVarint64(tagged_length)
       \o (IF shared_length > 0 THEN WriteVarint64(shared_length) ELSE <<>>)
       \o Substr(element, shared_length)

\* One entry: tagged_length, shared_length if > 0, the unshared bytes.
EncodeEntry(element, shared_length) ==
  LET unshared_length == Len(element) - shared_length
      tagged_length == 2 * unshared_length + (IF shared_length > 0 THEN 1 ELSE 0)
  IN WriteVarint64(tagged_length)
       \o (IF shared_length > 0 THEN WriteVarint64(shared_length) ELSE <<>>)
       \o Substr(element, shared_length)

\* Builder::InsertNextImpl(): [builder, result], result "true" (inserted),
\* "false" (equal to the last element) or "FailedPrecondition" (less than the
\* last element).  share_limit is the most bytes the entry shares.
InsertNextImpl(b, element, share_limit) ==
  IF ~Builder_empty(b) /\ element = b.last_
    THEN [builder |-> b, result |-> "false"]
  ELSE IF ~Builder_empty(b) /\ StringLess(element, b.last_)
    THEN [builder |-> b, result |-> "FailedPrecondition"]
  ELSE
    LET shared_length == Min(share_limit, CommonPrefix(b.last_, element))
    IN [builder |-> [b EXCEPT !.writer_ = @ \o EncodeEntry(element, shared_length),
                              !.last_ = element],
        result |-> "true"]

\* Builder::TryInsertNext() that rejects an element equal to the last one.
Builder_TryInsertNext_strict(b, element, share_limit) ==
  IF ~Builder_empty(b) /\ element = b.last_
    THEN [builder |-> b, result |-> "FailedPrecondition"]
    ELSE InsertNextImpl(b, element, share_limit)

\* Builder::TryInsertNext().
Builder_TryInsertNext(b, element, share_limit) ==
  InsertNextImpl(b, element, share_limit)

\* Builder::InsertNext(): an element out of order is fatal.
Builder_InsertNext(b, element, share_limit) ==
  LET r == InsertNextImpl(b, element, share_limit)
  IN IF r.result = "FailedPrecondition"
       THEN [builder |-> b, result |-> "fatal"]
       ELSE r

(***************************************************************************)
(* NextInsertIterator.  builder_ is the address of the Builder it is bound *)
(* to; the Builder of the model is at BuilderAddr.                         *)
(***************************************************************************)
BuilderAddr == 1

\* NextInsertIterator(): a sentinel.
NextInsertIterator_default == [builder_ |-> nullptr]

\* Builder::NextInserter(): NextInsertIterator(this).
NextInserter(this) == [builder_ |-> this]

\* reference::operator= that inserts with TryInsertNext().
NextInsertIterator_assign_try(b, element, share_limit) ==
  Builder_TryInsertNext(b, element, share_limit)

\* *it = element: builder_->InsertNext(element), b being *builder_.
NextInsertIterator_assign(b, element, share_limit) ==
  Builder_InsertNext(b, element, share_limit)

\* operator++ that leaves a sentinel.
NextInsertIterator_increment_reset(it) == NextInsertIterator_default

\* ++it: return *this.
NextInsertIterator_increment(it) == it

(***************************************************************************)
(* LinearSortedStringSet                                                   *)
(***************************************************************************)
\* LinearSortedStringSet(): an empty set.
Set_default == [encoded_ |-> <<>>]

\* Builder::Build() &&: the set owning the committed buffer.
Builder_Build(b) == [encoded_ |-> b.writer_]

\* The Builder after std::move(builder).Build().
Builder_built(b) == [b EXCEPT !.writer_ = <<>>, !.is_open = FALSE]

\* empty() as encoded_.size() <= 1.
empty_upto1(self) == Len(self.encoded_) <= 1

empty(self) == self.encoded_ = <<>>

\* begin() that returns Iterator(), as end() does.
begin_default(self) == Iterator_default

begin(self) == Iterator_init(self.encoded_)

end == Iterator_default

\* The elements a traversal from it to end() yields.
RECURSIVE DecodeFrom(_, _)
DecodeFrom(it, mem) ==
  IF Iterator_equal(it, end) THEN <<>>
  ELSE <<Iterator_deref(it, mem)>> \o DecodeFrom(Iterator_Next(it, mem).it, mem)

\* for (const absl::string_view element : self)
Elements(self) == DecodeFrom(begin(self), self.encoded_)

size(self) == Len(Elements(self))

RECURSIVE ContainsFrom(_, _, _)
ContainsFrom(it, mem, element) ==
  IF Iterator_equal(it, end) THEN FALSE
  ELSE LET found == Iterator_deref(it, mem) IN
       IF found = element THEN TRUE
       ELSE IF StringLess(element, found) THEN FALSE
       ELSE ContainsFrom(Iterator_Next(it, mem).it, mem, element)

contains(self, element) == ContainsFrom(begin(self), self.encoded_, element)

RECURSIVE EqualFrom(_, _, _, _)
EqualFrom(ia, ma, ib, mb) ==
  IF Iterator_equal(ia, end) THEN Iterator_equal(ib, end)
  ELSE IF Iterator_equal(ib, end) THEN FALSE
  ELSE IF Iterator_deref(ia, ma) # Iterator_deref(ib, mb) THEN FALSE
  ELSE EqualFrom(Iterator_Next(ia, ma).it, ma, Iterator_Next(ib, mb).it, mb)

EqualImpl(a, b) == EqualFrom(begin(a), a.encoded_, begin(b), b.encoded_)

RECURSIVE LessFrom(_, _, _, _)
LessFrom(ia, ma, ib, mb) ==
  IF Iterator_equal(ib, end) THEN FALSE
  ELSE IF Iterator_equal(ia, end) THEN TRUE
  ELSE IF Iterator_deref(ia, ma) # Iterator_deref(ib, mb)
    THEN StringLess(Iterator_deref(ia, ma), Iterator_deref(ib, mb))
  ELSE LessFrom(Iterator_Next(ia, ma).it, ma, Iterator_Next(ib, mb).it, mb)

LessImpl(a, b) == LessFrom(begin(a), a.encoded_, begin(b), b.encoded_)

\* operator== on the encoded bytes.
operator_eq_bytes(a, b) == a.encoded_ = b.encoded_

\* operator<= as LessImpl(a, b).
operator_le_strict(a, b) == LessImpl(a, b)

\* operator> as LessImpl(a, b).
operator_gt_same(a, b) == LessImpl(a, b)

operator_eq(a, b) == EqualImpl(a, b)
operator_ne(a, b) == ~EqualImpl(a, b)
operator_lt(a, b) == LessImpl(a, b)
operator_gt(a, b) == LessImpl(b, a)
operator_le(a, b) == ~LessImpl(b, a)
operator_ge(a, b) == ~LessImpl(a, b)

\* HashState::combine(hash_state, value): the hash state is the sequence of
\* the values combined into it.
HashCombine(hash_state, value) == Append(hash_state, value)

RECURSIVE HashFrom(_, _, _, _)
HashFrom(hash_state, n, it, mem) ==
  IF Iterator_equal(it, end) THEN HashCombine(hash_state, n)
  ELSE HashFrom(HashCombine(hash_state, Iterator_deref(it, mem)), n + 1,
                Iterator_Next(it, mem).it, mem)

\* AbslHashValueImpl that combines the encoded bytes and the element count.
AbslHashValueImpl_bytes(hash_state, self) ==
  HashCombine(HashCombine(hash_state, self.encoded_), size(self))

AbslHashValueImpl(hash_state, self) ==
  HashFrom(hash_state, 0, begin(self), self.encoded_)

\* The loop of FromSorted / FromUnsorted: builder.InsertNext(element) for each
\* element of src; [builder, fatal].
RECURSIVE InsertAll(_, _, _)
InsertAll(b, src, share_limit) ==
  IF src = <<>> THEN [builder |-> b, fatal |-> FALSE]
  ELSE LET r == Builder_InsertNext(b, Head(src), share_limit) IN
       IF r.result = "fatal" THEN [builder |-> b, fatal |-> TRUE]
       ELSE InsertAll(r.builder, Tail(src), share_limit)

\* FromSorted whose loop ends one element early.
FromSorted_short(src, share_limit) ==
  Builder_Build(InsertAll(Builder_new,
                          SubSeq(src, 1, Len(src) - 1), share_limit).builder)

FromSorted(src, share_limit) ==
  Builder_Build(InsertAll(Builder_new, src, share_limit).builder)

\* std::sort of the elements by value.
RECURSIVE SortInsert(_, _)
SortInsert(sorted, x) ==
  IF sorted = <<>> THEN <<x>>
  ELSE IF StringLess(x, Head(sorted)) THEN <<x>> \o sorted
  ELSE <<Head(sorted)>> \o SortInsert(Tail(sorted), x)

RECURSIVE Sort(_)
Sort(s) == IF s = <<>> THEN <<>> ELSE SortInsert(Sort(Tail(s)), Head(s))

\* FromUnsorted without the sort.
FromUnsorted_unsorted(src, share_limit) ==
  Builder_Build(InsertAll(Builder_new, src, share_limit).builder)

FromUnsorted(src, share_limit) ==
  Builder_Build(InsertAll(Builder_new, Sort(src), share_limit).builder)

(***************************************************************************)
(* std::string&& elements.  A std::string is [value, moved]; the value of  *)
(* a moved-from string is unspecified and is shown as empty.               *)
(***************************************************************************)
String_moved == [value |-> <<>>, moved |-> TRUE]

Movable(v) == [value |-> v, moved |-> FALSE]

\* InsertNext(std::string&&): [builder, result, element], element being the
\* argument after the call, moved from only if the result is true.
Builder_InsertNext_move(b, element, share_limit) ==
  LET r == Builder_InsertNext(b, element.value, share_limit)
  IN [builder |-> r.builder, result |-> r.result,
      element |-> IF r.result = "true" THEN String_moved ELSE element]

\* TryInsertNext(std::string&&).
Builder_TryInsertNext_move(b, element, share_limit) ==
  LET r == Builder_TryInsertNext(b, element.value, share_limit)
  IN [builder |-> r.builder, result |-> r.result,
      element |-> IF r.result = "true" THEN String_moved ELSE element]

\* builder.InsertNext(MaybeMoveElement<Src>(*iter)) for the iterators in
\* order, over a source of movable elements: [builder, objs].
RECURSIVE InsertAllMove(_, _, _, _)
InsertAllMove(b, objs, order, share_limit) ==
  IF order = <<>> THEN [builder |-> b, objs |-> objs]
  ELSE LET i == Head(order)
           r == Builder_InsertNext_move(b, objs[i], share_limit)
       IN InsertAllMove(r.builder, [objs EXCEPT ![i] = r.element],
                        Tail(order), share_limit)

\* FromSorted(Src&&) over movable elements: [set, objs].
FromSortedMove(objs, share_limit) ==
  LET r == InsertAllMove(Builder_new, objs, [i \in 1..Len(objs) |-> i],
                         share_limit)
  IN [set |-> Builder_Build(r.builder), objs |-> r.objs]

\* The orders std::sort may leave the iterators in: ascending by element
\* value, equal elements in any order.
SortedOrders(objs) ==
  {order \in [1..Len(objs) -> 1..Len(objs)] :
     /\ \A i, j \in 1..Len(objs) : i # j => order[i] # order[j]
     /\ \A i \in 1..(Len(objs) - 1) :
          ~StringLess(objs[order[i + 1]].value, objs[order[i]].value)}

\* FromUnsorted that moves every element out of the source.
FromUnsortedMove_all(objs, order, share_limit) ==
  [set |-> Builder_Build(InsertAllMove(Builder_new, objs, order,
                                       share_limit).builder),
   objs |-> [i \in 1..Len(objs) |-> String_moved]]

\* FromUnsorted(Src&&) over movable elements, order being the iterators
\* after std::sort: [set, objs].
FromUnsortedMove(objs, order, share_limit) ==
  LET r == InsertAllMove(Builder_new, objs, order, share_limit)
  IN [set |-> Builder_Build(r.builder), objs |-> r.objs]

(***************************************************************************)
(* RefCountedBase, RefCountedPtr, AtomicRefCountedPtr.  An object is known  *)
(* by its address; objects[p] is the object at address p.                  *)
(***************************************************************************)
\* The objects: the one arc holds at first, and the one that gets stored.
Held == 1
Desired == 2
ArcObjects == {Held, Desired}

\* The threads that load from arc, and the thread that stores to it.
Loaders == {1, 2}
Storer == 3
ArcThreads == Loaders \cup {Storer}

\* AtomicRefCountedPtr(RefCountedPtr<T> that): ptr_(that.release()).
AtomicRefCountedPtr_init == [ptr_ |-> Held]

\* std::atomic<size_t> ref_count_{1}; misused counts the calls of Ref() and
\* Unref() on the object after its deletion.
Objects_init ==
  [p \in ArcObjects |-> [ref_count_ |-> 1, deleted |-> 0, misused |-> 0]]

ArcThreads_init ==
  [t \in ArcThreads |-> [pc |-> "start", ptr |-> nullptr]]

\* An object that was deleted no longer exists: what Ref() and Unref() do to
\* it is undefined, which is recorded in misused.
Misuse(objs, p) == [objs EXCEPT ![p].misused = @ + 1]

\* RefCountedBase::Ref(): ref_count_.fetch_add(1).
RefCountedBase_Ref(objs, p) ==
  IF objs[p].deleted > 0 THEN Misuse(objs, p)
  ELSE [objs EXCEPT ![p].ref_count_ = @ + 1]

\* delete static_cast<T*>(this) in Unref().
RefCountedBase_delete(objs, p) == [objs EXCEPT ![p].deleted = @ + 1]

\* ref_count_.fetch_sub(1) in Unref().
RefCountedBase_fetch_sub(objs, p) ==
  IF objs[p].deleted > 0 THEN Misuse(objs, p)
  ELSE [objs EXCEPT ![p].ref_count_ = @ - 1]

(***************************************************************************)
(* StableDependencyImpl.  dep_ is the address of the Dependency, the k-th  *)
(* Dependency allocated being at address k.                                *)
(***************************************************************************)
SdThreads == {1, 2, 3}

\* std::atomic<Dependency*> dep_{nullptr}.
StableDependencyImpl_default == [dep_ |-> nullptr]

SdThreads_init ==
  [t \in SdThreads |->
     [pc |-> "start", dep |-> nullptr, other_dep |-> nullptr, ret |-> nullptr]]

\* An exchange that stores desired whatever the atomic holds.
compare_exchange_always(obj, expected, desired) ==
  [success |-> TRUE, obj |-> desired, expected |-> expected]

\* std::atomic::compare_exchange_strong(expected, desired) on an atomic that
\* holds obj: [success, obj, expected] after the call.
compare_exchange_strong(obj, expected, desired) ==
  IF obj = expected
    THEN [success |-> TRUE, obj |-> desired, expected |-> expected]
    ELSE [success |-> FALSE, obj |-> obj, expected |-> obj]

(***************************************************************************)
(* State                                                                   *)
(***************************************************************************)
VARIABLES
  builder,       \* the Builder: writer_ (bytes written), last_, is_open
  inserted,      \* the elements for which an insertion call returned true
  call,          \* the last call on the Builder: op, result
  set,           \* the set under test
  origin,        \* how set was constructed ("none": not yet)
  src,           \* the source sequence FromSorted / FromUnsorted got for set
  iter,          \* an Iterator over set
  out,           \* the elements the traversal with iter has yielded
  walking,       \* TRUE once a traversal of set has begun
  q,             \* the last query on set: op, arg, result
  other,         \* a second set, to compare set with
  origin_other,  \* how other was constructed
  src_other,     \* the source sequence other was constructed from
  cmp,           \* the results of comparing and hashing set and other
  ret,           \* what the last Next() on iter returned
  twin,          \* a second Builder, driven by InsertNext() only
  twin_result,   \* the result of the last call on twin
  adapters,      \* the NextInsertIterators handed out: builder_ of each
  arg,           \* the std::string last passed as an rvalue: before, after
  srcv,          \* the movable source after FromSorted / FromUnsorted
  readers,       \* per reader thread: its Iterator and what it has yielded
  rq,            \* the last read operation: thread, op, arg, result
  discarded,     \* whether the last Reset() discarded a last() that was not ""
  arc,           \* an AtomicRefCountedPtr: ptr_
  objects,       \* the ref-counted objects: ref_count, deleted, misused
  arc_threads,   \* the threads using arc: pc, ptr
  sd,            \* a StableDependencyImpl: dep_
  sd_heap,       \* the Dependency objects allocated: how often each was deleted
  sd_threads     \* the threads calling accessors of sd: pc, dep, other_dep

vars == <<builder, inserted, call, set, origin, src, iter, out, walking, q,
          other, origin_other, src_other, cmp, ret, twin, twin_result,
          adapters, arg, srcv, readers, rq, discarded, arc, objects,
          arc_threads, sd, sd_heap, sd_threads>>

builderVars == <<builder, inserted, call, discarded>>
walkVars == <<iter, out, walking, ret>>
extVars == <<twin, twin_result, adapters, arg, srcv, readers, rq>>
arcVars == <<arc, objects, arc_threads>>
sdVars == <<sd, sd_heap, sd_threads>>
farVars == <<arcVars, sdVars>>
otherVars == <<other, origin_other, src_other, cmp>>

NoCall == [op |-> "none", result |-> "none"]
NoQuery == [op |-> "none", arg |-> <<>>, result |-> FALSE]
NoCmp == [op |-> "none"]
NoArg == [before |-> <<>>, after |-> <<>>, moved |-> FALSE]
\* The threads that read the set.
Threads == {1, 2}
NoReader == [iter |-> Iterator_default, out |-> <<>>, walking |-> FALSE]
NoRead == [thread |-> 0, op |-> "none", arg |-> <<>>, result |-> <<>>]

Init ==
  /\ builder = Builder_new
  /\ inserted = <<>>
  /\ call = NoCall
  /\ set = Set_default
  /\ origin = "none"
  /\ src = <<>>
  /\ iter = Iterator_default
  /\ out = <<>>
  /\ walking = FALSE
  /\ ret = 0
  /\ q = NoQuery
  /\ other = Set_default
  /\ origin_other = "none"
  /\ src_other = <<>>
  /\ cmp = NoCmp
  /\ twin = Builder_new
  /\ twin_result = "none"
  /\ adapters = <<>>
  /\ arg = NoArg
  /\ srcv = <<>>
  /\ readers = [t \in Threads |-> NoReader]
  /\ rq = NoRead
  /\ discarded = FALSE
  /\ arc = AtomicRefCountedPtr_init
  /\ objects = Objects_init
  /\ arc_threads = ArcThreads_init
  /\ sd = StableDependencyImpl_default
  /\ sd_heap = <<>>
  /\ sd_threads = SdThreads_init

\* A failed RIEGELI_CHECK ends the program.
Alive == call.result # "fatal"

(***************************************************************************)
(* Builder operations.  The entry of an inserted element shares any number *)
(* of bytes up to the longest common prefix with the last element.         *)
(***************************************************************************)
InsertNext(element) ==
  /\ Alive /\ origin = "none" /\ builder.is_open
  /\ \E share_limit \in 0..CommonPrefix(builder.last_, element) :
       LET r == Builder_InsertNext(builder, element, share_limit) IN
       /\ r.result = "true" => Len(inserted) < MaxElems
       /\ builder' = r.builder
       /\ inserted' = IF r.result = "true" THEN Append(inserted, element)
                      ELSE inserted
       /\ call' = [op |-> "InsertNext", result |-> r.result]
  /\ UNCHANGED <<farVars, discarded, extVars, set, origin, src, walkVars, q, otherVars>>

TryInsertNext(element) ==
  /\ Alive /\ origin = "none" /\ builder.is_open
  /\ \E share_limit \in 0..CommonPrefix(builder.last_, element) :
       LET r == Builder_TryInsertNext(builder, element, share_limit) IN
       /\ r.result = "true" => Len(inserted) < MaxElems
       /\ builder' = r.builder
       /\ inserted' = IF r.result = "true" THEN Append(inserted, element)
                      ELSE inserted
       /\ call' = [op |-> "TryInsertNext", result |-> r.result]
  /\ UNCHANGED <<farVars, discarded, extVars, set, origin, src, walkVars, q, otherVars>>

\* LinearSortedStringSet set = std::move(builder).Build();
Build ==
  /\ Alive /\ origin = "none" /\ builder.is_open
  /\ set' = Builder_Build(builder)
  /\ builder' = Builder_built(builder)
  /\ call' = [op |-> "Build", result |-> "none"]
  /\ origin' = "Build"
  /\ UNCHANGED <<farVars, discarded, extVars, inserted, src, walkVars, q, otherVars>>

\* builder.Reset(): makes the Builder equivalent to a newly constructed one.
Reset ==
  /\ Alive /\ origin = "none" /\ builder.is_open
  /\ builder' = Builder_Reset(builder)
  /\ inserted' = <<>>
  /\ discarded' = (~Builder_empty(builder) /\ Builder_last(builder) # <<>>)
  /\ call' = [op |-> "Reset", result |-> "none"]
  /\ UNCHANGED <<farVars, extVars, set, origin, src, walkVars, q, otherVars>>

\* The same element, not less than the last one, given to builder by
\* TryInsertNext() and to twin by InsertNext().
TwinInsertNext(element) ==
  /\ origin = "none" /\ twin_result # "fatal"
  /\ Builder_empty(builder) \/ ~StringLess(element, Builder_last(builder))
  /\ \E share_limit \in 0..CommonPrefix(builder.last_, element) :
       LET r == Builder_TryInsertNext(builder, element, share_limit)
           r_twin == Builder_InsertNext(twin, element, share_limit)
       IN /\ r.result = "true" => Len(inserted) < MaxElems
          /\ builder' = r.builder
          /\ twin' = r_twin.builder
          /\ inserted' = IF r.result = "true" THEN Append(inserted, element)
                         ELSE inserted
          /\ call' = [op |-> "TryInsertNext", result |-> r.result]
          /\ twin_result' = r_twin.result
  /\ UNCHANGED <<farVars, discarded, set, origin, src, walkVars, q, otherVars, adapters, arg,
                 srcv, readers, rq>>

\* The bytes the elements of s take, each counted with one length byte.
RECURSIVE Cost(_)
Cost(s) == IF s = <<>> THEN 0 ELSE 1 + Len(Head(s)) + Cost(Tail(s))

\* NextInsertIterator it = builder.NextInserter();
GetNextInserter ==
  /\ origin = "none" /\ Alive /\ Len(adapters) < MaxAdapters
  /\ adapters' = Append(adapters, NextInserter(BuilderAddr))
  /\ UNCHANGED <<farVars, builderVars, set, origin, src, walkVars, q, otherVars, twin,
                 twin_result, arg, srcv, readers, rq>>

\* *adapters[i] = element; twin gets InsertNext(element) directly.
AdapterAssign(i, element) ==
  /\ origin = "none" /\ Alive
  /\ adapters[i].builder_ = BuilderAddr
  /\ \E share_limit \in 0..CommonPrefix(builder.last_, element) :
       LET r == NextInsertIterator_assign(builder, element, share_limit)
           r_twin == Builder_InsertNext(twin, element, share_limit)
       IN /\ r.result = "true" =>
               Cost(Append(inserted, element)) <= MaxReadBytes
          /\ builder' = r.builder
          /\ twin' = r_twin.builder
          /\ inserted' = IF r.result = "true" THEN Append(inserted, element)
                         ELSE inserted
          /\ call' = [op |-> "assign", result |-> r.result]
          /\ twin_result' = r_twin.result
  /\ UNCHANGED <<farVars, discarded, set, origin, src, walkVars, q, otherVars, adapters, arg,
                 srcv, readers, rq>>

\* ++adapters[i];
AdapterIncrement(i) ==
  /\ origin = "none" /\ Alive
  /\ adapters' = [adapters EXCEPT ![i] = NextInsertIterator_increment(@)]
  /\ call' = [op |-> "++", result |-> "none"]
  /\ UNCHANGED <<farVars, discarded, builder, inserted, set, origin, src, walkVars, q, otherVars,
                 twin, twin_result, arg, srcv, readers, rq>>

\* builder.InsertNext(element); and the same call on twin.
DirectInsertNext(element) ==
  /\ origin = "none" /\ Alive
  /\ \E share_limit \in 0..CommonPrefix(builder.last_, element) :
       LET r == Builder_InsertNext(builder, element, share_limit)
           r_twin == Builder_InsertNext(twin, element, share_limit)
       IN /\ r.result = "true" =>
               Cost(Append(inserted, element)) <= MaxReadBytes
          /\ builder' = r.builder
          /\ twin' = r_twin.builder
          /\ inserted' = IF r.result = "true" THEN Append(inserted, element)
                         ELSE inserted
          /\ call' = [op |-> "InsertNext", result |-> r.result]
          /\ twin_result' = r_twin.result
  /\ UNCHANGED <<farVars, discarded, set, origin, src, walkVars, q, otherVars, adapters, arg,
                 srcv, readers, rq>>

\* LinearSortedStringSet set;
DefaultConstruct ==
  /\ origin = "none" /\ call = NoCall
  /\ set' = Set_default
  /\ origin' = "default"
  /\ UNCHANGED <<farVars, extVars, builderVars, src, walkVars, q, otherVars>>

(***************************************************************************)
(* FromSorted / FromUnsorted.  Every entry shares at most share_limit      *)
(* bytes.                                                                  *)
(***************************************************************************)
Seqs(n) == UNION {[1..k -> Strings] : k \in 0..n}

IsSorted(s) == \A i \in 1..(Len(s) - 1) : ~StringLess(s[i + 1], s[i])

\* The sources of FromSorted: sorted, consecutive duplicates allowed.
SortedSources == {s \in Seqs(MaxElems) : IsSorted(s)}
\* The sequences of strings that take at most n bytes.
RECURSIVE SeqsWithin(_)
SeqsWithin(n) ==
  {<<>>} \cup
  UNION {{<<x>> \o s : s \in SeqsWithin(n - 1 - Len(x))} :
           x \in {y \in Strings : Len(y) + 1 <= n}}

\* The sources of FromUnsorted, and of the sets that get compared.
Sources == SeqsWithin(MaxBytes)

\* set = LinearSortedStringSet::FromSorted(s);
ConstructFromSorted(sources) ==
  /\ origin = "none" /\ call = NoCall
  /\ \E s \in sources, share_limit \in 0..MaxLen :
       /\ ~InsertAll(Builder_new, s, share_limit).fatal
       /\ set' = FromSorted(s, share_limit)
       /\ src' = s
  /\ origin' = "FromSorted"
  /\ UNCHANGED <<farVars, extVars, builderVars, walkVars, q, otherVars>>

\* set = LinearSortedStringSet::FromUnsorted(s);
ConstructFromUnsorted ==
  /\ origin = "none" /\ call = NoCall
  /\ \E s \in Sources, share_limit \in 0..MaxLen :
       /\ set' = FromUnsorted(s, share_limit)
       /\ src' = s
  /\ origin' = "FromUnsorted"
  /\ UNCHANGED <<farVars, extVars, builderVars, walkVars, q, otherVars>>

Range(s) == {s[i] : i \in 1..Len(s)}

StrictlySorted(s) == \A i \in 1..(Len(s) - 1) : StringLess(s[i], s[i + 1])

\* The sources other is constructed from, given the source of set: the
\* sequences with the same elements (reordered, repeated), and, for a set
\* made by FromSorted from a strictly ascending source, every strictly
\* ascending sequence.
OtherSources ==
  {s \in Sources :
     \/ Range(s) = Range(src)
     \/ origin = "FromSorted" /\ StrictlySorted(src) /\ StrictlySorted(s)}

\* other = LinearSortedStringSet::FromSorted(s);
ConstructOtherFromSorted ==
  /\ origin \in {"FromSorted", "FromUnsorted"} /\ origin_other = "none"
  /\ \E s \in OtherSources, share_limit \in 0..MaxLen :
       /\ ~InsertAll(Builder_new, s, share_limit).fatal
       /\ other' = FromSorted(s, share_limit)
       /\ src_other' = s
  /\ origin_other' = "FromSorted"
  /\ UNCHANGED <<farVars, extVars, builderVars, set, origin, src, walkVars, q, cmp>>

\* other = LinearSortedStringSet::FromUnsorted(s);
ConstructOtherFromUnsorted ==
  /\ origin \in {"FromSorted", "FromUnsorted"} /\ origin_other = "none"
  /\ \E s \in OtherSources, share_limit \in 0..MaxLen :
       /\ Range(s) = Range(src)
       /\ other' = FromUnsorted(s, share_limit)
       /\ src_other' = s
  /\ origin_other' = "FromUnsorted"
  /\ UNCHANGED <<farVars, extVars, builderVars, set, origin, src, walkVars, q, cmp>>

\* builder.InsertNext(std::move(s)) with s a std::string of value element.
MoveInsertNext(element) ==
  /\ Alive /\ origin = "none" /\ builder.is_open
  /\ \E share_limit \in 0..CommonPrefix(builder.last_, element) :
       LET r == Builder_InsertNext_move(builder, Movable(element), share_limit)
       IN /\ r.result = "true" => Len(inserted) < MaxElems
          /\ builder' = r.builder
          /\ inserted' = IF r.result = "true" THEN Append(inserted, element)
                         ELSE inserted
          /\ call' = [op |-> "InsertNext", result |-> r.result]
          /\ arg' = [before |-> element, after |-> r.element.value,
                     moved |-> r.element.moved]
  /\ UNCHANGED <<farVars, discarded, set, origin, src, walkVars, q, otherVars, twin, twin_result,
                 adapters, srcv, readers, rq>>

\* builder.TryInsertNext(std::move(s)) with s a std::string of value element.
MoveTryInsertNext(element) ==
  /\ Alive /\ origin = "none" /\ builder.is_open
  /\ \E share_limit \in 0..CommonPrefix(builder.last_, element) :
       LET r == Builder_TryInsertNext_move(builder, Movable(element),
                                          share_limit)
       IN /\ r.result = "true" => Len(inserted) < MaxElems
          /\ builder' = r.builder
          /\ inserted' = IF r.result = "true" THEN Append(inserted, element)
                         ELSE inserted
          /\ call' = [op |-> "TryInsertNext", result |-> r.result]
          /\ arg' = [before |-> element, after |-> r.element.value,
                     moved |-> r.element.moved]
  /\ UNCHANGED <<farVars, discarded, set, origin, src, walkVars, q, otherVars, twin, twin_result,
                 adapters, srcv, readers, rq>>

\* The sources of movable elements.
MoveSources == SeqsWithin(MaxReadBytes)

\* set = LinearSortedStringSet::FromSorted(std::move(v)), v a vector of
\* std::string.
ConstructFromSortedMove ==
  /\ origin = "none" /\ call = NoCall
  /\ \E s \in MoveSources, share_limit \in 0..MaxLen :
       LET r == FromSortedMove([i \in 1..Len(s) |-> Movable(s[i])], share_limit)
       IN /\ IsSorted(s)
          /\ set' = r.set
          /\ srcv' = r.objs
          /\ src' = s
  /\ origin' = "FromSorted"
  /\ UNCHANGED <<farVars, builderVars, walkVars, q, otherVars, twin, twin_result,
                 adapters, arg, readers, rq>>

\* set = LinearSortedStringSet::FromUnsorted(std::move(v)).
ConstructFromUnsortedMove ==
  /\ origin = "none" /\ call = NoCall
  /\ \E s \in MoveSources, share_limit \in 0..MaxLen :
       LET objs == [i \in 1..Len(s) |-> Movable(s[i])] IN
       \E order \in SortedOrders(objs) :
         LET r == FromUnsortedMove(objs, order, share_limit)
         IN /\ set' = r.set
            /\ srcv' = r.objs
            /\ src' = s
  /\ origin' = "FromUnsorted"
  /\ UNCHANGED <<farVars, builderVars, walkVars, q, otherVars, twin, twin_result,
                 adapters, arg, readers, rq>>

(***************************************************************************)
(* Set operations                                                          *)
(***************************************************************************)
\* iter = set.begin();
Begin ==
  /\ Alive /\ origin # "none"
  /\ iter' = begin(set)
  /\ out' = <<>>
  /\ walking' = TRUE
  /\ ret' = 0
  /\ UNCHANGED <<farVars, extVars, builderVars, set, origin, src, q, otherVars>>

\* The body of a traversal: read *iter, then ++iter.
Step ==
  /\ Alive /\ walking /\ ~Iterator_equal(iter, end)
  /\ out' = Append(out, Iterator_deref(iter, set.encoded_))
  /\ iter' = Iterator_Next(iter, set.encoded_).it
  /\ ret' = Iterator_Next(iter, set.encoded_).shared_length
  /\ UNCHANGED <<farVars, extVars, builderVars, set, origin, src, walking, q, otherVars>>

Contains(element) ==
  /\ Alive /\ origin # "none"
  /\ q' = [op |-> "contains", arg |-> element, result |-> contains(set, element)]
  /\ UNCHANGED <<farVars, extVars, builderVars, set, origin, src, walkVars, otherVars>>

Size ==
  /\ Alive /\ origin # "none"
  /\ q' = [op |-> "size", arg |-> <<>>, result |-> size(set)]
  /\ UNCHANGED <<farVars, extVars, builderVars, set, origin, src, walkVars, otherVars>>

Empty ==
  /\ Alive /\ origin # "none"
  /\ q' = [op |-> "empty", arg |-> <<>>, result |-> empty(set)]
  /\ UNCHANGED <<farVars, extVars, builderVars, set, origin, src, walkVars, otherVars>>

\* set.begin() == set.end()
BeginIsEnd ==
  /\ Alive /\ origin # "none"
  /\ q' = [op |-> "begin==end", arg |-> <<>>,
           result |-> Iterator_equal(begin(set), end)]
  /\ UNCHANGED <<farVars, extVars, builderVars, set, origin, src, walkVars, otherVars>>

\* The six comparison operators on (set, other).
Compare ==
  /\ origin # "none" /\ origin_other # "none"
  /\ cmp' = [op |-> "compare",
             eq |-> operator_eq(set, other), ne |-> operator_ne(set, other),
             lt |-> operator_lt(set, other), gt |-> operator_gt(set, other),
             le |-> operator_le(set, other), ge |-> operator_ge(set, other)]
  /\ UNCHANGED <<farVars, extVars, builderVars, set, origin, src, walkVars, q, other,
                 origin_other, src_other>>

\* absl::Hash of set and of other, each from the same initial hash state.
Hash ==
  /\ origin # "none" /\ origin_other # "none"
  /\ cmp' = [op |-> "hash",
             set |-> AbslHashValueImpl(<<>>, set),
             other |-> AbslHashValueImpl(<<>>, other)]
  /\ UNCHANGED <<farVars, extVars, builderVars, set, origin, src, walkVars, q, other,
                 origin_other, src_other>>

(***************************************************************************)
(* Reader threads.  Each thread has its own Iterator over the one set; a   *)
(* read operation is one step of its thread.                               *)
(***************************************************************************)
\* The sorted sources of the set the threads read.
ReaderSources == {s \in SeqsWithin(MaxReadBytes) : IsSorted(s)}

\* Iterator it = set.begin(); in thread t.
Reader_begin(rs, t, self) ==
  [rs EXCEPT ![t] = [iter |-> begin(self), out |-> <<>>, walking |-> TRUE]]

\* operator++ on an Iterator state that all the threads share.
Reader_advance_shared(rs, t, mem) ==
  [u \in Threads |->
     [rs[u] EXCEPT !.iter = Iterator_Next(rs[t].iter, mem).it,
                   !.out = IF u = t
                             THEN Append(@, Iterator_deref(rs[t].iter, mem))
                             ELSE @]]

\* *it, then ++it, in thread t: only the Iterator of t changes.
Reader_advance(rs, t, mem) ==
  [rs EXCEPT ![t].out = Append(@, Iterator_deref(rs[t].iter, mem)),
             ![t].iter = Iterator_Next(rs[t].iter, mem).it]

ReaderBegin(t) ==
  /\ origin # "none"
  /\ readers' = Reader_begin(readers, t, set)
  /\ rq' = [thread |-> t, op |-> "begin", arg |-> <<>>, result |-> <<>>]
  /\ UNCHANGED <<farVars, builderVars, set, origin, src, walkVars, q, otherVars,
                 twin, twin_result, adapters, arg, srcv>>

ReaderStep(t) ==
  /\ origin # "none"
  /\ readers[t].walking /\ ~Iterator_equal(readers[t].iter, end)
  /\ readers' = Reader_advance(readers, t, set.encoded_)
  /\ rq' = [thread |-> t, op |-> "step", arg |-> <<>>,
            result |-> Iterator_deref(readers[t].iter, set.encoded_)]
  /\ UNCHANGED <<farVars, builderVars, set, origin, src, walkVars, q, otherVars,
                 twin, twin_result, adapters, arg, srcv>>

\* A const operation on the set in thread t: contains(), size(),
\* set == set, other < set (other is the empty set).
ReaderQuery(t) ==
  /\ origin # "none"
  /\ \/ \E element \in Strings :
          rq' = [thread |-> t, op |-> "contains", arg |-> element,
                 result |-> contains(set, element)]
     \/ rq' = [thread |-> t, op |-> "size", arg |-> <<>>, result |-> size(set)]
     \/ rq' = [thread |-> t, op |-> "==", arg |-> <<>>,
               result |-> operator_eq(set, set)]
     \/ rq' = [thread |-> t, op |-> "<", arg |-> <<>>,
               result |-> operator_lt(other, set)]
  /\ UNCHANGED <<farVars, builderVars, set, origin, src, walkVars, q, otherVars,
                 twin, twin_result, adapters, arg, srcv, readers>>

\* Iterator u = t; the iterators being named like the threads.
ReaderCopy(t, u) ==
  /\ origin # "none" /\ t # u
  /\ readers[t].walking
  /\ readers' = [readers EXCEPT ![u] = [iter |-> Iterator_copy(readers[t].iter),
                                        out |-> readers[t].out,
                                        walking |-> TRUE]]
  /\ rq' = [thread |-> t, op |-> "copy", arg |-> <<u>>, result |-> <<>>]
  /\ UNCHANGED <<farVars, builderVars, set, origin, src, walkVars, q, otherVars,
                 twin, twin_result, adapters, arg, srcv>>

\* Iterator u = t++; result is what *u gives.
ReaderPostIncrement(t, u) ==
  /\ origin # "none" /\ t # u
  /\ readers[t].walking /\ ~Iterator_equal(readers[t].iter, end)
  /\ LET r == Iterator_postinc(readers[t].iter, set.encoded_) IN
     /\ readers' =
          [readers EXCEPT
             ![t] = [@ EXCEPT !.iter = r.it,
                              !.out = Append(@, Iterator_deref(readers[t].iter,
                                                               set.encoded_))],
             ![u] = [iter |-> r.tmp, out |-> readers[t].out, walking |-> TRUE]]
     /\ rq' = [thread |-> t, op |-> "postinc", arg |-> <<u>>,
               result |-> Iterator_deref(r.tmp, set.encoded_)]
  /\ UNCHANGED <<farVars, builderVars, set, origin, src, walkVars, q, otherVars,
                 twin, twin_result, adapters, arg, srcv>>

(***************************************************************************)
(* AtomicRefCountedPtr: load() in the Loaders, store(desired) in the       *)
(* Storer, one atomic operation per step.  A thread whose step misuses a   *)
(* deleted object stops at "undefined".                                    *)
(***************************************************************************)
\* load(): T* const ptr = ptr_.load(order);
ArcLoad(t) ==
  /\ t \in Loaders /\ arc_threads[t].pc = "start"
  /\ arc_threads' = [arc_threads EXCEPT
                       ![t] = [pc |-> IF arc.ptr_ = nullptr THEN "done" ELSE "Ref",
                               ptr |-> arc.ptr_]]
  /\ UNCHANGED <<arc, objects>>
  /\ UNCHANGED <<sdVars, extVars, builderVars, set, origin, src, walkVars, q,
                 otherVars>>

\* load(): if (ptr != nullptr) ptr->Ref(); return RefCountedPtr<T>(ptr);
ArcRef(t) ==
  /\ arc_threads[t].pc = "Ref"
  /\ objects' = RefCountedBase_Ref(objects, arc_threads[t].ptr)
  /\ arc_threads' = [arc_threads EXCEPT
                       ![t].pc = IF objects[arc_threads[t].ptr].deleted > 0
                                   THEN "undefined" ELSE "owner"]
  /\ UNCHANGED arc
  /\ UNCHANGED <<sdVars, extVars, builderVars, set, origin, src, walkVars, q,
                 otherVars>>

\* store(): T* const ptr = ptr_.exchange(desired.release(), order);
ArcExchange(t) ==
  /\ t = Storer /\ arc_threads[t].pc = "start"
  /\ arc' = [arc EXCEPT !.ptr_ = Desired]
  /\ arc_threads' = [arc_threads EXCEPT
                       ![t] = [pc |-> IF arc.ptr_ = nullptr THEN "done"
                                                           ELSE "owner",
                               ptr |-> arc.ptr_]]
  /\ UNCHANGED objects
  /\ UNCHANGED <<sdVars, extVars, builderVars, set, origin, src, walkVars, q,
                 otherVars>>

\* ptr->Unref(), of store() or of ~RefCountedPtr() for what load() returned:
\* ref_count_.load(std::memory_order_acquire) == 1 ||
ArcUnrefLoad(t) ==
  /\ arc_threads[t].pc = "owner"
  /\ LET p == arc_threads[t].ptr IN
     /\ objects' = IF objects[p].deleted > 0 THEN Misuse(objects, p)
                   ELSE objects
     /\ arc_threads' = [arc_threads EXCEPT
                          ![t].pc = IF objects[p].deleted > 0 THEN "undefined"
                                    ELSE IF objects[p].ref_count_ = 1
                                           THEN "delete"
                                    ELSE "fetch_sub"]
  /\ UNCHANGED arc
  /\ UNCHANGED <<sdVars, extVars, builderVars, set, origin, src, walkVars, q,
                 otherVars>>

\* Unref(): ref_count_.fetch_sub(1, std::memory_order_acq_rel) == 1
ArcUnrefSub(t) ==
  /\ arc_threads[t].pc = "fetch_sub"
  /\ LET p == arc_threads[t].ptr IN
     /\ objects' = RefCountedBase_fetch_sub(objects, p)
     /\ arc_threads' = [arc_threads EXCEPT
                          ![t].pc = IF objects[p].deleted > 0 THEN "undefined"
                                    ELSE IF objects[p].ref_count_ = 1
                                           THEN "delete"
                                    ELSE "done"]
  /\ UNCHANGED arc
  /\ UNCHANGED <<sdVars, extVars, builderVars, set, origin, src, walkVars, q,
                 otherVars>>

\* Unref(): delete static_cast<T*>(this);
ArcDelete(t) ==
  /\ arc_threads[t].pc = "delete"
  /\ objects' = RefCountedBase_delete(objects, arc_threads[t].ptr)
  /\ arc_threads' = [arc_threads EXCEPT ![t].pc = "done"]
  /\ UNCHANGED arc
  /\ UNCHANGED <<sdVars, extVars, builderVars, set, origin, src, walkVars, q,
                 otherVars>>

(***************************************************************************)
(* StableDependencyImpl: manager(), get() or is_owning() called in each of *)
(* the SdThreads, one atomic operation per step.                           *)
(***************************************************************************)
\* EnsureAllocated(): dep = dep_.load(acquire); if (dep != nullptr) return dep;
SdLoad(t) ==
  /\ sd_threads[t].pc = "start"
  /\ sd_threads' = [sd_threads EXCEPT
                      ![t].dep = sd.dep_,
                      ![t].ret = sd.dep_,
                      ![t].pc = IF sd.dep_ # nullptr THEN "done" ELSE "new"]
  /\ UNCHANGED <<sd, sd_heap>>
  /\ UNCHANGED <<arcVars, extVars, builderVars, set, origin, src, walkVars, q,
                 otherVars>>

\* EnsureAllocatedSlow(): dep = new Dependency(); other_dep = nullptr;
SdNew(t) ==
  /\ sd_threads[t].pc = "new"
  /\ sd_heap' = Append(sd_heap, [deleted |-> 0])
  /\ sd_threads' = [sd_threads EXCEPT ![t].dep = Len(sd_heap) + 1,
                                      ![t].other_dep = nullptr,
                                      ![t].pc = "compare_exchange"]
  /\ UNCHANGED sd
  /\ UNCHANGED <<arcVars, extVars, builderVars, set, origin, src, walkVars, q,
                 otherVars>>

\* EnsureAllocatedSlow(): dep_.compare_exchange_strong(other_dep, dep), and
\* return dep when it succeeds.
SdCompareExchange(t) ==
  /\ sd_threads[t].pc = "compare_exchange"
  /\ LET r == compare_exchange_strong(sd.dep_, sd_threads[t].other_dep,
                                      sd_threads[t].dep) IN
     /\ sd' = [sd EXCEPT !.dep_ = r.obj]
     /\ sd_threads' = [sd_threads EXCEPT
                         ![t].other_dep = r.expected,
                         ![t].ret = IF r.success THEN sd_threads[t].dep ELSE @,
                         ![t].pc = IF r.success THEN "done" ELSE "delete"]
  /\ UNCHANGED sd_heap
  /\ UNCHANGED <<arcVars, extVars, builderVars, set, origin, src, walkVars, q,
                 otherVars>>

\* EnsureAllocatedSlow(), the race lost: delete dep; return other_dep;
SdDelete(t) ==
  /\ sd_threads[t].pc = "delete"
  /\ sd_heap' = [sd_heap EXCEPT ![sd_threads[t].dep].deleted = @ + 1]
  /\ sd_threads' = [sd_threads EXCEPT ![t].ret = sd_threads[t].other_dep,
                                      ![t].pc = "done"]
  /\ UNCHANGED sd
  /\ UNCHANGED <<arcVars, extVars, builderVars, set, origin, src, walkVars, q,
                 otherVars>>

(***************************************************************************)
(* Specifications                                                          *)
(***************************************************************************)
BuilderNext ==
  \/ \E element \in Strings : InsertNext(element)
  \/ \E element \in Strings : TryInsertNext(element)
  \/ Build
  \/ DefaultConstruct

\* A Builder, the set it builds, and a traversal of that set.
Next ==
  \/ BuilderNext
  \/ Begin
  \/ Step

Spec == Init /\ [][Next]_vars

\* A Builder, the set it builds, and queries on that set.
NextQuery ==
  \/ BuilderNext
  \/ \E element \in Strings : Contains(element)
  \/ Size
  \/ Empty
  \/ BeginIsEnd

SpecQuery == Init /\ [][NextQuery]_vars

\* A set made by FromSorted or FromUnsorted, and a traversal of it.
NextFrom ==
  \/ ConstructFromSorted(SortedSources)
  \/ ConstructFromUnsorted
  \/ Begin
  \/ Step

SpecFrom == Init /\ [][NextFrom]_vars

\* Two sets made by FromSorted or FromUnsorted, compared and hashed.
NextPair ==
  \/ ConstructFromSorted(Sources)
  \/ ConstructFromUnsorted
  \/ ConstructOtherFromSorted
  \/ ConstructOtherFromUnsorted
  \/ Compare
  \/ Hash

SpecPair == Init /\ [][NextPair]_vars

\* A Builder that is filled, reset and filled again, then built.
NextBuilder ==
  \/ BuilderNext
  \/ Reset

SpecBuilder == Init /\ [][NextBuilder]_vars

\* Two Builders given the same ascending elements, one by TryInsertNext(),
\* one by InsertNext().
NextTwin == \E element \in Strings : TwinInsertNext(element)

SpecTwin == Init /\ [][NextTwin]_vars

\* One Builder filled through its NextInsertIterators and by InsertNext(),
\* and a twin given the combined elements by InsertNext() alone.
NextAdapter ==
  \/ GetNextInserter
  \/ \E i \in DOMAIN adapters, element \in Strings : AdapterAssign(i, element)
  \/ \E i \in DOMAIN adapters : AdapterIncrement(i)
  \/ \E element \in Strings : DirectInsertNext(element)

SpecAdapter == Init /\ [][NextAdapter]_vars

\* std::string&& elements given to a Builder, and sources of movable
\* elements given to FromSorted and FromUnsorted.
NextMove ==
  \/ \E element \in Strings : MoveInsertNext(element)
  \/ \E element \in Strings : MoveTryInsertNext(element)
  \/ ConstructFromSortedMove
  \/ ConstructFromUnsortedMove

SpecMove == Init /\ [][NextMove]_vars

\* A set made by FromSorted, read by the threads in any interleaving.
NextReaders ==
  \/ ConstructFromSorted(ReaderSources)
  \/ \E t \in Threads : ReaderBegin(t)
  \/ \E t \in Threads : ReaderStep(t)
  \/ \E t \in Threads : ReaderQuery(t)

SpecReaders == Init /\ [][NextReaders]_vars

(***************************************************************************)
(* Properties.  The order of strings and the contents of a set are stated  *)
(* here on their own, not through the operators above.                     *)
(***************************************************************************)
\* x is before y in byte-lexicographic order.
Precedes(x, y) ==
  \E k \in 0..Min(Len(x), Len(y)) :
    /\ \A i \in 1..k : x[i] = y[i]
    /\ \/ k = Len(x) /\ k < Len(y)
       \/ k < Len(x) /\ k < Len(y) /\ x[k + 1] < y[k + 1]

\* s is strictly ascending, so without duplicates.
Ascending(s) == \A i \in 1..(Len(s) - 1) : Precedes(s[i], s[i + 1])

\* The strings of S in ascending order.
RECURSIVE AscendingSeq(_)
AscendingSeq(S) ==
  IF S = {} THEN <<>>
  ELSE LET least == CHOOSE x \in S : \A y \in S \ {x} : Precedes(x, y)
       IN <<least>> \o AscendingSeq(S \ {least})

\* The list of strings s is before the list t: the first differing pair
\* decides, and a proper prefix is before the longer list.
SeqPrecedes(s, t) ==
  \E k \in 0..Min(Len(s), Len(t)) :
    /\ \A i \in 1..k : s[i] = t[i]
    /\ \/ k = Len(s) /\ k < Len(t)
       \/ k < Len(s) /\ k < Len(t) /\ Precedes(s[k + 1], t[k + 1])

IsPrefix(s, t) == Len(s) <= Len(t) /\ SubSeq(t, 1, Len(s)) = s

Count(s, x) == Cardinality({i \in 1..Len(s) : s[i] = x})

IsPermutation(s, t) ==
  Len(s) = Len(t) /\ \A x \in Range(s) \cup Range(t) : Count(s, x) = Count(t, x)

Last(s) == s[Len(s)]

\* "a", "b", "ab", "abc", "abcd"
S_a == <<97>>
S_b == <<98>>
S_ab == <<97, 98>>
S_abc == <<97, 98, 99>>
S_abcd == <<97, 98, 99, 100>>

\* The elements set and other hold, from the sources they were made of.
SetTruth == AscendingSeq(Range(src))
OtherTruth == AscendingSeq(Range(src_other))

\* C1: a traversal of FromSorted(S), S strictly ascending (possibly empty,
\* possibly starting with the empty string), yields the elements of S in
\* order: at every point what it has yielded is a prefix of S, and it is at
\* end() exactly when it has yielded all of S.
C1_RoundTrip ==
  (origin = "FromSorted" /\ Ascending(src) /\ walking) =>
    /\ IsPrefix(out, src)
    /\ Iterator_equal(iter, end) <=> out = src

C1_Witness ==
  /\ origin = "FromSorted" /\ Ascending(src) /\ walking
  /\ Len(src) = 3 /\ src[1] = <<>>
  /\ Iterator_equal(iter, end) /\ out = src

\* C2: the set Build() returns after any insertion calls decodes to exactly
\* the elements for which a call returned true, in call order, and that
\* sequence is strictly ascending (no duplicates).
C2_BuildDecodesInserted ==
  origin = "Build" =>
    /\ Elements(set) = inserted
    /\ Ascending(Elements(set))

C2_Witness ==
  /\ origin = "Build" /\ Len(inserted) = 3
  /\ Elements(set) = inserted
  /\ set.encoded_ # FromSorted(inserted, 0).encoded_

\* C3: TryInsertNext(e) on a non-empty Builder with e less than last()
\* returns FailedPrecondition and leaves the Builder as it was: the
\* buffer, empty(), last() and the set a later Build() gives; after
\* InsertNext("b"), TryInsertNext("a") fails, last() is "b" and the set
\* built is {"b"}.
C3_TryInsertNextOutOfOrder ==
  [][\A e \in Strings :
       (/\ call'.op = "TryInsertNext"
        /\ inserted # <<>> /\ Precedes(e, Last(inserted))
        /\ TryInsertNext(e)) =>
         /\ call'.result = "FailedPrecondition"
         /\ builder'.writer_ = builder.writer_
         /\ Builder_empty(builder') = Builder_empty(builder)
         /\ Builder_last(builder') = Builder_last(builder)
         /\ Builder_Build(builder') = Builder_Build(builder)
         /\ builder' = builder
         /\ inserted' = inserted
         /\ (inserted = <<S_b>> /\ e = S_a) =>
              /\ Builder_last(builder') = S_b
              /\ Elements(Builder_Build(builder')) = <<S_b>>]_vars

C3_Witness ==
  /\ call.op = "TryInsertNext" /\ call.result = "FailedPrecondition"
  /\ Len(inserted) = 2 /\ Builder_last(builder) = inserted[2]

\* C4: InsertNext(e) and TryInsertNext(e) on a non-empty Builder with e equal
\* to last() return false, append nothing and leave last() as it was; so
\* FromSorted(["a","a","b"]) == FromSorted(["a","b"]), both holding exactly
\* "a" and "b".
C4_Example ==
  \A k1, k2 \in 0..MaxLen :
    /\ operator_eq(FromSorted(<<S_a, S_a, S_b>>, k1), FromSorted(<<S_a, S_b>>, k2))
    /\ Elements(FromSorted(<<S_a, S_a, S_b>>, k1)) = <<S_a, S_b>>

C4_DuplicateNotInserted ==
  /\ C4_Example
  /\ [][\A e \in Strings :
       (/\ call'.op \in {"InsertNext", "TryInsertNext"}
        /\ inserted # <<>> /\ e = Last(inserted)
        /\ (InsertNext(e) \/ TryInsertNext(e))) =>
         /\ call'.result = "false"
         /\ builder'.writer_ = builder.writer_
         /\ Builder_last(builder') = Builder_last(builder)
         /\ inserted' = inserted]_vars

C4_Witness ==
  /\ call.op = "InsertNext" /\ call.result = "false"
  /\ Len(inserted) = 2 /\ Builder_last(builder) = inserted[2]

\* C5: FromUnsorted(P) == FromSorted(the elements of P sorted, without
\* duplicates), and FromUnsorted(P) == FromUnsorted(P') for every
\* permutation P' of P.
C5_UnsortedEquivalence ==
  (origin = "FromUnsorted" /\ cmp.op = "compare") =>
    /\ (origin_other = "FromSorted" /\ src_other = AscendingSeq(Range(src)))
         => cmp.eq
    /\ (origin_other = "FromUnsorted" /\ IsPermutation(src, src_other))
         => cmp.eq

C5_Witness ==
  /\ origin = "FromUnsorted" /\ cmp.op = "compare"
  /\ src = <<S_b, S_a, S_a>>
  /\ origin_other = "FromSorted" /\ src_other = <<S_a, S_b>>
  /\ cmp.eq

\* C6: contains(x) is true exactly when x is one of the elements of the set
\* (the early exit at the first greater element loses none); for
\* {"ab","abc","b"}: "ab", "abc", "b" are contained, "a" and "abcd" are not.
C6_Example ==
  \A k \in 0..3 :
    LET s == FromSorted(<<S_ab, S_abc, S_b>>, k) IN
    /\ contains(s, S_ab) /\ contains(s, S_abc) /\ contains(s, S_b)
    /\ ~contains(s, S_a) /\ ~contains(s, S_abcd)

C6_ContainsIffElement ==
  /\ C6_Example
  /\ q.op = "contains" => (q.result <=> q.arg \in Range(inserted))

C6_Witness ==
  /\ q.op = "contains" /\ ~q.result
  /\ Len(inserted) = 3
  /\ Precedes(inserted[1], q.arg) /\ Precedes(q.arg, inserted[2])

\* C7: a == b exactly when the two sets hold the same elements, whatever
\* bytes encode them, and a != b is the negation of a == b.
C7_EqualIffSameElements ==
  cmp.op = "compare" =>
    /\ cmp.eq <=> SetTruth = OtherTruth
    /\ cmp.ne <=> ~cmp.eq

C7_Witness ==
  /\ cmp.op = "compare" /\ cmp.eq
  /\ set.encoded_ # other.encoded_
  /\ Len(SetTruth) = 2

\* C8: a < b exactly when the elements of a are before those of b as lists
\* of strings; a > b is b < a, a <= b is not b < a, a >= b is not a < b;
\* Build(["a"]) < Build(["a","b"]), Build(["ab"]) < Build(["b"]).
C8_Example ==
  /\ (cmp.op = "compare" /\ src = <<S_a>> /\ src_other = <<S_a, S_b>>)
       => cmp.lt /\ ~cmp.gt
  /\ (cmp.op = "compare" /\ src = <<S_ab>> /\ src_other = <<S_b>>)
       => cmp.lt /\ ~cmp.gt

C8_LessIsLexicographic ==
  /\ C8_Example
  /\ cmp.op = "compare" =>
       /\ cmp.lt <=> SeqPrecedes(SetTruth, OtherTruth)
       /\ cmp.gt <=> SeqPrecedes(OtherTruth, SetTruth)
       /\ cmp.le <=> ~SeqPrecedes(OtherTruth, SetTruth)
       /\ cmp.ge <=> ~SeqPrecedes(SetTruth, OtherTruth)

C8_Witness ==
  /\ cmp.op = "compare" /\ cmp.lt /\ ~cmp.gt /\ cmp.le /\ ~cmp.ge
  /\ Len(SetTruth) = 2 /\ Len(OtherTruth) = 2
  /\ SetTruth[1] = OtherTruth[1]

\* C9: two sets that compare equal combine the same values into the hash
\* state, their elements in order and then their number, whatever their
\* construction and their encodings.
C9_EqualSetsHashEqual ==
  (cmp.op = "hash" /\ operator_eq(set, other)) =>
    /\ cmp.set = cmp.other
    /\ cmp.set = SetTruth \o <<Len(SetTruth)>>

C9_Witness ==
  /\ cmp.op = "hash" /\ cmp.set = cmp.other
  /\ set.encoded_ # other.encoded_
  /\ origin # origin_other
  /\ Len(cmp.set) = 3

\* C10: a default-constructed set, and a set built by a Builder nothing was
\* inserted into, is empty(), has size() 0 and begin() == end(), and
\* contains no string; and a set is empty() only if no element was
\* committed.
C10_EmptySet ==
  /\ (origin = "default" \/ (origin = "Build" /\ inserted = <<>>)) =>
       /\ q.op = "empty" => q.result
       /\ q.op = "size" => q.result = 0
       /\ q.op = "begin==end" => q.result
       /\ q.op = "contains" => ~q.result
  /\ (origin # "none" /\ q.op = "empty") => (q.result <=> inserted = <<>>)

C10_Witness ==
  /\ origin = "Build" /\ inserted = <<>>
  /\ q.op = "begin==end" /\ q.result

\* C11: size() is the number of elements of the set, which is the number of
\* insertion calls that returned true and the number of distinct strings
\* inserted; FromUnsorted(["b","a","a"]).size() == 2.
C11_SizeIsCount ==
  q.op = "size" =>
    /\ q.result = Len(inserted)
    /\ q.result = Cardinality(Range(inserted))
    /\ \A k \in 0..1 : size(FromUnsorted(<<S_b, S_a, S_a>>, k)) = 2

C11_Witness ==
  /\ q.op = "size" /\ q.result = 3
  /\ inserted[1] = <<>>

\* C12: the iterator begin() returns is end() after exactly as many advances
\* as the set has elements and not earlier, so it is not end() whenever the
\* traversal dereferences or advances it; its cursor stays inside the encoded
\* buffer, at most one past its last byte.
C12_EndAfterExactlyN ==
  walking =>
    /\ Len(out) <= Len(inserted)
    /\ Iterator_equal(iter, end) <=> Len(out) = Len(inserted)
    /\ iter.limit_ = 1 + Len(set.encoded_)
    /\ iter.cursor_ # nullptr =>
         /\ 1 <= iter.cursor_ /\ iter.cursor_ <= iter.limit_
         /\ iter.length_if_unshared_ < iter.cursor_

C12_Witness ==
  /\ walking /\ Len(out) = 3 /\ Iterator_equal(iter, end)
  /\ set.encoded_ # FromSorted(inserted, 0).encoded_

\* C15: Next() on an iterator positioned on element p returns a length k
\* such that the first k bytes of the new current element are the first k
\* bytes of p, and returns 0 when the advance reaches end().
C15_NextSharedLength ==
  (walking /\ out # <<>>) =>
    IF Iterator_equal(iter, end) THEN ret = 0
    ELSE LET p == inserted[Len(out)]
             current == Iterator_deref(iter, set.encoded_)
         IN /\ ret <= Len(p) /\ ret <= Len(current)
            /\ \A i \in 1..Min(ret, Min(Len(p), Len(current))) : current[i] = p[i]
            /\ current = inserted[Len(out) + 1]

C15_Witness ==
  /\ walking /\ Len(out) = 2 /\ ~Iterator_equal(iter, end)
  /\ ret = 1

\* The reader t has yielded every element of the set.
\* A set, and iterators over it that are copied and advanced.
NextCopy ==
  \/ ConstructFromSorted(ReaderSources)
  \/ \E t \in Threads : ReaderBegin(t)
  \/ \E t \in Threads : ReaderStep(t)
  \/ \E t, u \in Threads : ReaderCopy(t, u)
  \/ \E t, u \in Threads : ReaderPostIncrement(t, u)

SpecCopy == Init /\ [][NextCopy]_vars

\* Two threads that load() from an AtomicRefCountedPtr and drop what they
\* got, and one thread that store()s to it.
NextArc ==
  \/ \E t \in ArcThreads : ArcLoad(t)
  \/ \E t \in ArcThreads : ArcRef(t)
  \/ \E t \in ArcThreads : ArcExchange(t)
  \/ \E t \in ArcThreads : ArcUnrefLoad(t)
  \/ \E t \in ArcThreads : ArcUnrefSub(t)
  \/ \E t \in ArcThreads : ArcDelete(t)

SpecArc == Init /\ [][NextArc]_vars

\* Threads that call const accessors of one StableDependency whose
\* Dependency is not allocated yet.
NextSd ==
  \/ \E t \in SdThreads : SdLoad(t)
  \/ \E t \in SdThreads : SdNew(t)
  \/ \E t \in SdThreads : SdCompareExchange(t)
  \/ \E t \in SdThreads : SdDelete(t)

SpecSd == Init /\ [][NextSd]_vars

Exhausted(t) == readers[t].walking /\ Len(readers[t].out) = Len(SetTruth)

\* C13: all end() iterators compare equal: the default-constructed one, the
\* one end() returns, and every iterator advanced past the last element of
\* its set; an iterator positioned on an element never compares equal to
\* end().
C13_EndIteratorsEqual ==
  /\ Iterator_equal(Iterator_default, end)
  /\ \A t \in Threads :
       /\ Exhausted(t) =>
            /\ Iterator_equal(readers[t].iter, end)
            /\ Iterator_equal(end, readers[t].iter)
            /\ Iterator_equal(readers[t].iter, Iterator_default)
            /\ \A u \in Threads :
                 (Exhausted(u) \/ ~readers[u].walking) =>
                   Iterator_equal(readers[t].iter, readers[u].iter)
       /\ (readers[t].walking /\ ~Exhausted(t)) =>
            /\ ~Iterator_equal(readers[t].iter, end)
            /\ ~Iterator_equal(end, readers[t].iter)
            /\ ~Iterator_equal(readers[t].iter, Iterator_default)

C13_Witness ==
  /\ Len(SetTruth) = 2
  /\ Exhausted(1) /\ ~readers[2].walking
  /\ readers[1].iter # readers[2].iter

\* C14: operator== on two iterators is true exactly when both are end();
\* two iterators of which one is positioned on an element are unequal.
C14_EqualOnlyAtEnd ==
  \A t, u \in Threads :
    (t # u /\ readers[t].walking /\ readers[u].walking) =>
      (Iterator_equal(readers[t].iter, readers[u].iter) <=>
         (Exhausted(t) /\ Exhausted(u)))

\* What a read operation returns when it runs alone on the set.
ReadAlone ==
  LET me == readers[rq.thread] IN
  /\ rq.op = "begin" =>
       /\ me.out = <<>> /\ me.walking
       /\ Iterator_equal(me.iter, end) <=> SetTruth = <<>>
  /\ rq.op = "step" =>
       /\ Len(me.out) <= Len(SetTruth)
       /\ me.out = SubSeq(SetTruth, 1, Len(me.out))
       /\ rq.result = Last(me.out)
       /\ Iterator_equal(me.iter, end) <=> me.out = SetTruth
  /\ rq.op = "contains" => (rq.result <=> rq.arg \in Range(src))
  /\ rq.op = "size" => rq.result = Cardinality(Range(src))
  /\ rq.op = "==" => rq.result
  /\ rq.op = "<" => (rq.result <=> src # <<>>)

C19_BuilderEmptyAndLast ==
  builder.is_open =>
    /\ Builder_empty(builder) <=> inserted = <<>>
    /\ ~Builder_empty(builder) =>
         /\ Builder_last(builder) = Last(inserted)
         /\ \A i \in 1..Len(inserted) :
              \/ inserted[i] = Builder_last(builder)
              \/ Precedes(inserted[i], Builder_last(builder))

C19_Witness ==
  /\ builder.is_open /\ ~Builder_empty(builder)
  /\ inserted = <<<<>>>>
  /\ call.op = "TryInsertNext" /\ call.result = "false"

C16_AdapterIsInsertNext ==
  /\ builder = twin
  /\ call.op \in {"assign", "InsertNext"} => call.result = twin_result
  /\ \A i \in DOMAIN adapters : adapters[i] = NextInserter(BuilderAddr)
  /\ Alive => Elements(Builder_Build(builder)) = inserted

C16_Witness ==
  /\ Len(adapters) = 2 /\ Len(inserted) = 2
  /\ call.op = "assign" /\ call.result = "false"
  /\ builder.writer_ # FromSorted(inserted, 0).encoded_

\* C18: a std::string passed as an rvalue to InsertNext() or TryInsertNext()
\* is moved from only if the call returns true, and keeps its value when
\* the call returns false or fails; so of a movable source given to
\* FromSorted or FromUnsorted, one element of each group of equal elements
\* is moved from and every other element keeps its value.
C18_MovedOnlyIfInserted ==
  /\ call.op \in {"InsertNext", "TryInsertNext"} =>
       /\ arg.moved <=> call.result = "true"
       /\ ~arg.moved => arg.after = arg.before
  /\ origin \in {"FromSorted", "FromUnsorted"} =>
       /\ Len(srcv) = Len(src)
       /\ \A v \in Range(src) :
            Cardinality({i \in 1..Len(src) : src[i] = v /\ srcv[i].moved}) = 1
       /\ \A i \in 1..Len(src) : ~srcv[i].moved => srcv[i].value = src[i]
       /\ Elements(set) = SetTruth

C18_Witness ==
  /\ origin = "FromUnsorted" /\ src = <<S_a, S_a, <<>>>>
  /\ ~srcv[1].moved /\ srcv[2].moved /\ srcv[3].moved
  /\ srcv[1].value = S_a

(***************************************************************************)
(* The layout of an encoded buffer, read without the Iterator.             *)
(***************************************************************************)
\* The buffer the Builder produced: the set it built, or what it wrote so far.
Produced == IF origin = "Build" THEN set.encoded_ ELSE builder.writer_

FromBuilder == src = <<>> /\ origin \in {"none", "Build"}

NoEntry == [ok |-> FALSE, tagged_length |-> 0, has_shared |-> 0,
            shared_length |-> 0, bytes |-> <<>>]

\* The entries of buf from position pos on, each with its fields as laid out
\* (lengths below 128 take one byte); an entry that does not fit in buf ends
\* the list as NoEntry.
RECURSIVE EntriesAt(_, _)
EntriesAt(buf, pos) ==
  IF pos > Len(buf) THEN <<>>
  ELSE
    LET tagged_length == buf[pos]
        has_shared == tagged_length % 2
        unshared_length == tagged_length \div 2
        data == pos + 1 + has_shared
        fits == /\ tagged_length < 128
                /\ data + unshared_length - 1 <= Len(buf)
                /\ has_shared = 1 => buf[pos + 1] < 128
    IN IF ~fits THEN <<NoEntry>>
       ELSE <<[ok |-> TRUE, tagged_length |-> tagged_length,
               has_shared |-> has_shared,
               shared_length |-> IF has_shared = 1 THEN buf[pos + 1] ELSE 0,
               bytes |-> SubSeq(buf, data, data + unshared_length - 1)]>>
              \o EntriesAt(buf, data + unshared_length)

Entries(buf) == EntriesAt(buf, 1)

\* C21: a buffer produced by the Builder is one entry per committed element:
\* tagged_length = 2 * unshared_length + has_shared, then shared_length only
\* when has_shared is 1, then unshared_length raw bytes; has_shared is 1
\* exactly when the entry shares at least one byte, and the first entry has
\* has_shared = 0 and tagged_length = 2 * length.
C21_EntryLayout ==
  FromBuilder =>
    LET es == Entries(Produced) IN
    /\ Len(es) = Len(inserted)
    /\ \A i \in 1..Len(es) :
         LET shared == Len(inserted[i]) - Len(es[i].bytes) IN
         /\ es[i].ok /\ shared >= 0
         /\ es[i].tagged_length = 2 * Len(es[i].bytes) + es[i].has_shared
         /\ es[i].has_shared \in {0, 1}
         /\ es[i].has_shared = 1 <=> shared > 0
         /\ es[i].has_shared = 1 => es[i].shared_length = shared
         /\ es[i].bytes = Substr(inserted[i], shared)
         /\ i = 1 => /\ es[i].has_shared = 0
                     /\ es[i].tagged_length = 2 * Len(inserted[1])

C21_Witness ==
  /\ origin = "Build" /\ inserted = <<S_a, S_ab, S_b>>
  /\ set.encoded_ = <<2, 97, 3, 1, 98, 2, 98>>

\* C22: in a buffer produced by the Builder, every entry after the first
\* records a shared_length of at most the length of the previous element and
\* of the current one, and shared_length + unshared_length is the length of
\* the current element.
C22_SharedLengthBound ==
  FromBuilder =>
    LET es == Entries(Produced) IN
    /\ Len(es) = Len(inserted)
    /\ \A i \in 2..Len(es) :
         /\ es[i].ok
         /\ es[i].shared_length <= Min(Len(inserted[i - 1]), Len(inserted[i]))
         /\ es[i].shared_length + (es[i].tagged_length \div 2) = Len(inserted[i])

C22_Witness ==
  /\ origin = "none" /\ inserted = <<S_a, S_ab, <<98, 98>>>>
  /\ builder.writer_ = <<2, 97, 3, 1, 98, 4, 98, 98>>

Decoded ==
  IF Iterator_equal(iter, end) THEN out
  ELSE Append(out, Iterator_deref(iter, set.encoded_))

\* C24: the Iterator yields for every entry the first shared_length bytes of
\* the previously decoded element (the empty string before the first entry),
\* shared_length being the stored one, followed by the entry's unshared
\* bytes, also when the stored shared_length is less than the longest common
\* prefix; at end() every entry has been yielded.
C24_DecodeContract ==
  walking =>
    LET es == Entries(set.encoded_) IN
    /\ Len(Decoded) <= Len(es)
    /\ Iterator_equal(iter, end) => Len(out) = Len(es)
    /\ \A i \in 1..Len(Decoded) :
         LET prev == IF i = 1 THEN <<>> ELSE Decoded[i - 1] IN
         /\ es[i].ok
         /\ es[i].shared_length <= Len(prev)
         /\ Decoded[i] = SubSeq(prev, 1, es[i].shared_length) \o es[i].bytes

C24_Witness ==
  /\ walking /\ Iterator_equal(iter, end)
  /\ set.encoded_ = <<2, 97, 4, 97, 97, 3, 1, 98>>
  /\ out = <<S_a, <<97, 97>>, S_ab>>
  /\ CommonPrefix(out[1], out[2]) = 1

\* The iterator of t is where a traversal that yielded readers[t].out is.
Positioned(t) ==
  LET r == readers[t] IN
  /\ IsPrefix(r.out, SetTruth)
  /\ Iterator_equal(r.iter, end) <=> Len(r.out) = Len(SetTruth)
  /\ Len(r.out) < Len(SetTruth) =>
       Iterator_deref(r.iter, set.encoded_) = SetTruth[Len(r.out) + 1]

\* C25: copies of an Iterator are independent: advancing one leaves the
\* position and the dereferenced value of the others as they were, whether
\* the current element is a view into the buffer or the owned current_, and
\* the iterator operator++(int) returns dereferences to the element that
\* was current before the advance.
C25_IteratorCopiesIndependent ==
  [][/\ \A t \in Threads : readers'[t].walking => Positioned(t)'
     /\ \A t \in Threads :
          (rq'.thread = t /\ rq'.op = "step") =>
            \A u \in Threads \ {t} : readers'[u] = readers[u]
     /\ \A t \in Threads :
          (rq'.thread = t /\ rq'.op = "postinc") =>
            /\ rq'.result = Iterator_deref(readers[t].iter, set.encoded_)
            /\ rq'.result = SetTruth[Len(readers[t].out) + 1]
            /\ readers'[t].out = Append(readers[t].out, rq'.result)
            /\ \A u \in Threads \ {t} :
                 /\ readers'[u].out = readers[t].out
                 /\ Iterator_deref(readers'[u].iter, set.encoded_) = rq'.result]_vars

C25_Witness ==
  /\ rq.op = "postinc" /\ rq.thread = 1
  /\ SetTruth = <<S_a, S_ab>>
  /\ readers[1].out = <<S_a, S_ab>> /\ readers[2].out = <<S_a>>
  /\ readers[2].iter.length_if_unshared_ = 0
  /\ readers[2].iter.current_ = S_ab

InsertsEmptyString ==
  /\ call'.op \in {"InsertNext", "TryInsertNext"}
  /\ InsertNext(<<>>) \/ TryInsertNext(<<>>)

\* C27: the empty string inserted first into an empty Builder is committed:
\* InsertNext("") and TryInsertNext("") return true, empty() becomes false
\* and last() is ""; the set built has size() 1, contains "", and its
\* begin() is not end() and dereferences to ""; a second insertion of ""
\* returns false.
C27_EmptyStringFirst ==
  [][/\ (inserted = <<>> /\ Builder_empty(builder) /\ InsertsEmptyString) =>
          /\ call'.result = "true"
          /\ inserted' = <<<<>>>>
          /\ ~Builder_empty(builder')
          /\ Builder_last(builder') = <<>>
     /\ (inserted = <<<<>>>> /\ InsertsEmptyString) =>
          /\ call'.result = "false"
          /\ builder' = builder
     /\ (origin' = "Build" /\ inserted' = <<<<>>>>) =>
          /\ size(set') = 1
          /\ contains(set', <<>>)
          /\ ~empty(set')
          /\ ~Iterator_equal(begin(set'), end)
          /\ Iterator_deref(begin(set'), set'.encoded_) = <<>>
          /\ Iterator_equal(Iterator_Next(begin(set'), set'.encoded_).it, end)
          /\ q'.op = "size" => q'.result = 1
          /\ (q'.op = "contains" /\ q'.arg = <<>>) => q'.result
          /\ q'.op = "begin==end" => ~q'.result]_vars

C27_Witness ==
  /\ origin = "Build" /\ inserted = <<<<>>>>
  /\ set.encoded_ = <<0>>
  /\ q.op = "contains" /\ q.arg = <<>> /\ q.result

\* Sets to stand between or beside set and other: those of at most two
\* elements of at most one byte.
Thirds ==
  {FromSorted(s, 0) :
     s \in {x \in UNION {[1..n -> {<<>>, S_a, S_b}] : n \in 0..2} :
              StrictlySorted(x)}}

\* C28: the comparison operators agree with each other: exactly one of
\* a < b, a == b, b < a holds; a <= b is a < b or a == b, a >= b is a > b
\* or a == b, a != b is not a == b; < is irreflexive and transitive.
C28_ComparisonsConsistent ==
  cmp.op = "compare" =>
    /\ \/ cmp.lt /\ ~cmp.eq /\ ~cmp.gt
       \/ ~cmp.lt /\ cmp.eq /\ ~cmp.gt
       \/ ~cmp.lt /\ ~cmp.eq /\ cmp.gt
    /\ cmp.gt <=> operator_lt(other, set)
    /\ cmp.eq <=> operator_eq(other, set)
    /\ cmp.le <=> (cmp.lt \/ cmp.eq)
    /\ cmp.ge <=> (cmp.gt \/ cmp.eq)
    /\ cmp.ne <=> ~cmp.eq
    /\ ~operator_lt(set, set) /\ ~operator_lt(other, other)
    /\ operator_eq(set, set) /\ operator_le(set, set)
    /\ \A c \in Thirds :
         /\ (cmp.lt /\ operator_lt(other, c)) => operator_lt(set, c)
         /\ (operator_lt(c, set) /\ cmp.lt) => operator_lt(c, other)
         /\ (operator_lt(set, c) /\ operator_lt(c, other)) => cmp.lt

C28_Witness ==
  /\ cmp.op = "compare" /\ cmp.lt /\ cmp.le /\ cmp.ne
  /\ SetTruth = <<S_a>> /\ OtherTruth = <<S_b>>
  /\ \E c \in Thirds : operator_lt(set, c) /\ operator_lt(c, other)

\* The owners of object p: the AtomicRefCountedPtr that points to it, and
\* the threads that hold a RefCountedPtr to it or are in its Unref().
Owners(p) ==
  (IF arc.ptr_ = p THEN {0} ELSE {})
    \cup {t \in ArcThreads : /\ arc_threads[t].ptr = p
                              /\ arc_threads[t].pc \in {"owner", "fetch_sub"}}

\* C29: under every interleaving of load() with store() and with the
\* destruction of what load() returned, an object is deleted at most once,
\* only when it has no owner left, and exactly once when the threads are
\* done; Ref() and Unref() are never called on an object that was deleted.
C29_LoadStoreSafe ==
  /\ \A p \in ArcObjects :
       /\ objects[p].misused = 0
       /\ objects[p].deleted <= 1
       /\ objects[p].deleted = 1 => Owners(p) = {}
  /\ \A t \in ArcThreads : arc_threads[t].pc # "undefined"
  /\ (\A t \in ArcThreads : arc_threads[t].pc = "done") =>
       /\ objects[Held].deleted = 1
       /\ objects[Desired].deleted = 0

\* The Dependency objects that exist and belong to no call in progress.
Installed ==
  {k \in 1..Len(sd_heap) :
     /\ sd_heap[k].deleted = 0
     /\ \A t \in SdThreads :
          sd_threads[t].pc \in {"compare_exchange", "delete"} =>
            sd_threads[t].dep # k}

SdReturned == {t \in SdThreads : sd_threads[t].pc = "done"}

SdSafe ==
  /\ \A t \in SdReturned :
       /\ sd_threads[t].ret # nullptr
       /\ sd_threads[t].ret = sd.dep_
       /\ sd_heap[sd_threads[t].ret].deleted = 0
  /\ \A t, u \in SdReturned : sd_threads[t].ret = sd_threads[u].ret
  /\ Installed = IF sd.dep_ = nullptr THEN {} ELSE {sd.dep_}
  /\ \A k \in 1..Len(sd_heap) : sd_heap[k].deleted <= 1
  /\ SdReturned = SdThreads =>
       \A k \in 1..Len(sd_heap) : k # sd.dep_ => sd_heap[k].deleted = 1

\* C30: threads that call const accessors of a StableDependency not
\* allocated yet all get the same Dependency, the one dep_ points to;
\* exactly one allocation is installed in dep_; an allocation that lost the
\* compare-and-swap is deleted exactly once and returned to nobody; dep_,
\* once not null, does not change.
C30_EnsureAllocatedOnce ==
  [][/\ SdSafe'
     /\ sd.dep_ # nullptr => sd'.dep_ = sd.dep_]_vars

C30_Witness ==
  /\ SdReturned = SdThreads
  /\ Len(sd_heap) = 3
  /\ sd.dep_ = 2
  /\ sd_heap[1].deleted = 1 /\ sd_heap[3].deleted = 1
  /\ \A t \in SdThreads : sd_threads[t].ret = 2

=============================================================================
